---- MODULE Spec2Model ----
(***************************************************************************)
(* Model of pyvera's change-notification subsystem                         *)
(* (src/pyvera/__init__.py): the subscription registry                     *)
(* (AbstractSubscriptionRegistry.register / unregister), the per-cycle     *)
(* dispatch (_event), the job state machine (_event_device) and the        *)
(* device-side merge (VeraDevice.update / set_alerts).                     *)
(*                                                                         *)
(* Python strings that the code searches with str.find are sequences of    *)
(* one-character strings, so that find returns a real index (-1, 0, >0).   *)
(* JSON objects are functions whose DOMAIN is the set of keys present.     *)
(***************************************************************************)
EXTENDS Integers, Sequences, FiniteSets, TLC

(***************************************************************************)
(* Program constants                                                       *)
(***************************************************************************)
STATE_NO_JOB == -1
STATE_JOB_WAITING_TO_START == 0
STATE_JOB_IN_PROGRESS == 1
STATE_JOB_ERROR == 2
STATE_JOB_ABORTED == 3
STATE_JOB_DONE == 4
STATE_JOB_WAITING_FOR_CALLBACK == 5
STATE_JOB_REQUEUE == 6
STATE_JOB_PENDING_DATA == 7
STATE_NOT_PRESENT == 999

\* The three literals _event_device searches the comment for.
LOCK_TARGET_TIMEOUT_SEC == 30

SENDING == <<"S","e","n","d","i","n","g">>
SUCCESS == <<"S","U","C","C","E","S","S","!">>
SETTING_USER_CONFIGURATION ==
  <<"S","e","t","t","i","n","g"," ","u","s","e","r"," ",
    "c","o","n","f","i","g","u","r","a","t","i","o","n">>

(***************************************************************************)
(* Bounds                                                                  *)
(***************************************************************************)
\* Largest number of (device, callback) registrations held at once.
MaxReg == 2

\* start() calls of one run.
MaxStarts == 2

\* Seconds the clock of the lock specification runs.
MaxTime == 35

(***************************************************************************)
(* Python primitives                                                       *)
(***************************************************************************)
None == "None"

\* str.find(sub): lowest 0-based index at which sub occurs in s, else -1.
Find(s, sub) ==
  LET hits == {i \in 0..(Len(s) - Len(sub)) :
                 SubSeq(s, i + 1, i + Len(sub)) = sub}
  IN IF hits = {} THEN -1
     ELSE CHOOSE i \in hits : \A j \in hits : i <= j

\* bool(n) of an int: every int but 0 is true.
Truthy(n) == n # 0

\* dict.get(key, default) on a JSON object.
Get(obj, key, default) == IF key \in DOMAIN obj THEN obj[key] ELSE default

\* A remove that drops every occurrence of x.
RemoveEvery(seq, x) == SelectSeq(seq, LAMBDA y : y # x)

\* list.remove(x): the list without its first occurrence of x (x is in it).
RemoveFirst(seq, x) ==
  LET i == CHOOSE k \in 1..Len(seq) :
             seq[k] = x /\ \A j \in 1..(k - 1) : seq[j] # x
  IN SubSeq(seq, 1, i - 1) \o SubSeq(seq, i + 1, Len(seq))

\* x in list
InSeq(seq, x) == \E k \in 1..Len(seq) : seq[k] = x

\* list.count(x)
Count(seq, x) == Cardinality({k \in 1..Len(seq) : seq[k] = x})

(***************************************************************************)
(* JSON values: an int, a string (sequence of characters) or null.         *)
(***************************************************************************)
JInt(n) == [t |-> "int", v |-> n]
JStr(s) == [t |-> "str", v |-> s]
JNull == [t |-> "null"]

\* Python truthiness of a JSON value (JNull is also what dict.get returns
\* for a missing key).
IsTrue(x) ==
  IF x.t = "int" THEN x.v # 0
  ELSE IF x.t = "str" THEN x.v # <<>>
  ELSE FALSE

Digits == <<"0","1","2","3","4","5","6","7","8","9">>
DigitVal(c) == (CHOOSE k \in 1..10 : Digits[k] = c) - 1
IsDigit(c) == \E k \in 1..10 : Digits[k] = c

RECURSIVE ParseNat(_, _)
\* value of the decimal digit string s, most significant digit first
ParseNat(s, acc) ==
  IF s = <<>> THEN acc ELSE ParseNat(Tail(s), 10 * acc + DigitVal(Head(s)))

\* int(x): an int is itself, a string is parsed as an optionally signed
\* decimal; anything else raises (ValueError for a bad string, TypeError
\* for null).
IntOf(x) ==
  IF x.t = "int" THEN [ok |-> TRUE, v |-> x.v]
  ELSE IF x.t = "str" THEN
    LET neg == x.v # <<>> /\ Head(x.v) = "-"
        body == IF neg THEN Tail(x.v) ELSE x.v
    IN IF body # <<>> /\ \A k \in 1..Len(body) : IsDigit(body[k])
       THEN [ok |-> TRUE, v |-> IF neg THEN 0 - ParseNat(body, 0) ELSE ParseNat(body, 0)]
       ELSE [ok |-> FALSE, exc |-> "ValueError"]
  ELSE [ok |-> FALSE, exc |-> "TypeError"]

(***************************************************************************)
(* Device objects: a lock, and an armable door sensor.  For the latter     *)
(* get_devices builds a VeraBinarySensor and a VeraArmableDevice over the  *)
(* SAME json item, so the two objects share one cached deviceInfo mapping  *)
(* and one device id.                                                      *)
(***************************************************************************)
Devices == {"lock", "sensor", "armable"}
Callbacks == {"cb1", "cb2"}

ClassName(device) ==
  CASE device = "lock" -> "VeraLock"
    [] device = "sensor" -> "VeraBinarySensor"
    [] device = "armable" -> "VeraArmableDevice"

DEVICE_LOCK_ID == 10
DEVICE_DOOR_SENSOR_ID == 45

vera_device_id(device) == IF device = "lock" THEN DEVICE_LOCK_ID ELSE DEVICE_DOOR_SENSOR_ID

DeviceIds == {vera_device_id(d) : d \in Devices}

(***************************************************************************)
(* Device-side operations                                                  *)
(***************************************************************************)
\* VeraAlert.__init__ (the timestamp conversion is not modelled)
VeraAlert(json_alert, device) ==
  [device |-> device,
   code |-> Get(json_alert, "Code", JNull),
   severity |-> Get(json_alert, "Severity", JNull),
   value |-> Get(json_alert, "NewValue", JNull)]

\* A set_alerts that extends the attached alerts.
SetAlertsAccumulates(w, device, json_alerts) ==
  [w EXCEPT !.alerts[device] =
     @ \o [k \in 1..Len(json_alerts) |-> VeraAlert(json_alerts[k], device)]]

\* VeraDevice.set_alerts: the attached alerts are replaced, never extended
set_alerts(w, device, json_alerts) ==
  [w EXCEPT !.alerts[device] =
     [k \in 1..Len(json_alerts) |-> VeraAlert(json_alerts[k], device)]]

\* A merge that copies every key of params (dev_info.update(params)).
MergeInsertsKeys(info, params) ==
  [k \in DOMAIN info \cup DOMAIN params |->
     IF k \in DOMAIN params THEN params[k] ELSE info[k]]

\* The merge of VeraDevice.update on a cached mapping: a key of params is
\* copied when dev_info.get(key) is true.
Merge(info, params) ==
  [k \in DOMAIN info |->
     IF k \in DOMAIN params /\ IsTrue(Get(info, k, JNull)) THEN params[k]
     ELSE info[k]]

\* VeraDevice.update: merges into the deviceInfo of the device's json item
\* (keyed here by the device id, shared by the objects built on that item).
update(w, device, params) ==
  [w EXCEPT !.dev_info[vera_device_id(device)] = Merge(@, params),
            !.updates = Append(@, <<device, params>>)]

\* VeraLock.lock_target before any command and after it is dropped.
NoTarget == [t |-> "none"]

\* VeraDevice.set_cache_value on a cached mapping: the value is stored as
\* a string, and only under a key the mapping has.
set_cache_value(info, name, value) ==
  IF Get(info, name, JNull) = JNull THEN info
  ELSE [info EXCEPT ![name] = JStr(value)]

\* VeraLock.set_lock_state once the hub has taken the request: the cached
\* value and the target (str(state), time.time()).
set_lock_state(info, state, time) ==
  [info |-> set_cache_value(info, "locked", state),
   lock_target |-> [t |-> "target", state |-> state, time |-> time]]

\* An is_locked that answers from the cached value alone.
IsLockedCachedOnly(info, target, time) ==
  [lock_target |-> target, locked |-> (Get(info, "locked", JNull) = JStr(<<"1">>))]

\* VeraLock.is_locked(): the target is dropped when the cached value has
\* reached it or LOCK_TARGET_TIMEOUT_SEC seconds have passed, and answers
\* for the cached value while it is kept.
is_locked(info, target, time) ==
  LET cached == Get(info, "locked", JNull)
      kept == IF target # NoTarget
                 /\ (JStr(target.state) = cached
                     \/ time - target.time >= LOCK_TARGET_TIMEOUT_SEC)
              THEN NoTarget ELSE target
  IN [lock_target |-> kept,
      locked |-> IF kept # NoTarget THEN kept.state = <<"1">>
                 ELSE cached = JStr(<<"1">>)]

(***************************************************************************)
(* Registry operations                                                     *)
(***************************************************************************)
\* A register that lists a device object under its id once.
RegisterDeviceOnce(w, device, callback) ==
  IF device = None THEN [w EXCEPT !.log = Append(@, <<"error", device>>)]
  ELSE [w EXCEPT !.devices[vera_device_id(device)] =
                   IF InSeq(@, device) THEN @ ELSE Append(@, device),
                 !.callbacks[device] = Append(@, callback)]

\* AbstractSubscriptionRegistry.register
register(w, device, callback) ==
  IF device = None THEN [w EXCEPT !.log = Append(@, <<"error", device>>)]
  ELSE [w EXCEPT !.devices[vera_device_id(device)] = Append(@, device),
                 !.callbacks[device] = Append(@, callback)]

\* An unregister that removes the device entry and leaves the callback.
UnregisterKeepsCallback(w, device, callback) ==
  IF device = None THEN [w EXCEPT !.log = Append(@, <<"error", device>>)]
  ELSE IF ~InSeq(w.callbacks[device], callback)
  THEN [w EXCEPT !.exc = "ValueError"]
  ELSE IF ~InSeq(w.devices[vera_device_id(device)], device)
  THEN [w EXCEPT !.exc = "ValueError"]
  ELSE [w EXCEPT !.devices[vera_device_id(device)] = RemoveFirst(@, device)]

\* An unregister that removes the callback and leaves the device entry.
UnregisterKeepsDevice(w, device, callback) ==
  IF device = None THEN [w EXCEPT !.log = Append(@, <<"error", device>>)]
  ELSE IF ~InSeq(w.callbacks[device], callback)
  THEN [w EXCEPT !.exc = "ValueError"]
  ELSE [w EXCEPT !.callbacks[device] = RemoveFirst(@, callback)]

\* AbstractSubscriptionRegistry.unregister: list.remove raises ValueError
\* when the element is not in the list.
unregister(w, device, callback) ==
  IF device = None THEN [w EXCEPT !.log = Append(@, <<"error", device>>)]
  ELSE IF ~InSeq(w.callbacks[device], callback)
  THEN [w EXCEPT !.exc = "ValueError"]
  ELSE LET w1 == [w EXCEPT !.callbacks[device] = RemoveFirst(@, callback)]
           id == vera_device_id(device)
       IN IF ~InSeq(w1.devices[id], device)
          THEN [w1 EXCEPT !.exc = "ValueError"]
          ELSE [w1 EXCEPT !.devices[id] = RemoveFirst(@, device)]

(***************************************************************************)
(* Callbacks                                                               *)
(***************************************************************************)
\* The consumer callbacks that raise an Exception when they are called.
Raising == {"cb2"}

\* The consumer callbacks that unregister themselves from the device they
\* are called with.
SelfRemoving == {"cb3"}

\* callback(device): the consumer callbacks of the model record the call
\* and what the device they are handed shows (its cached fields and its
\* alerts); those of Raising then raise, those of SelfRemoving call
\* unregister(device, callback).
Call(w, callback, device) ==
  LET w1 == [w EXCEPT !.calls = Append(@, <<callback, device>>),
                      !.seen = Append(@, [device |-> device,
                                          info |-> w.dev_info[vera_device_id(device)],
                                          alerts |-> w.alerts[device]])]
  IN IF callback \in Raising THEN [w1 EXCEPT !.exc = "Exception"]
     ELSE IF callback \in SelfRemoving THEN unregister(w1, device, callback)
     ELSE w1

\* The call without its try statement: what the callback raises escapes.
InvokeUncaught(w, callback, device) == Call(w, callback, device)

\* The body of the callback loop: the call under try / except Exception,
\* which logs what the callback raised and goes on.
Invoke(w, callback, device) ==
  LET w1 == Call(w, callback, device)
  IN IF w1.exc # None
     THEN [w1 EXCEPT !.exc = None, !.log = Append(@, <<"callback", device>>)]
     ELSE w1

RECURSIVE CallbackLoop(_, _, _)
\* for callback in self._callbacks.get(device, ()): the list iterator reads
\* position i of the live list until i runs past its end; an exception
\* that escapes the body ends the loop.
CallbackLoop(w, device, i) ==
  IF i > Len(w.callbacks[device]) THEN w
  ELSE LET w1 == Invoke(w, w.callbacks[device][i], device)
       IN IF w1.exc # None THEN w1 ELSE CallbackLoop(w1, device, i + 1)

(***************************************************************************)
(* The job state machine                                                   *)
(***************************************************************************)
DeferredStates ==
  {STATE_JOB_WAITING_TO_START, STATE_JOB_IN_PROGRESS,
   STATE_JOB_WAITING_FOR_CALLBACK, STATE_JOB_REQUEUE, STATE_JOB_PENDING_DATA}

\* The rewrites with the lock rule applied to a device of any class.
EffectiveStateAnyClass(device, state, comment) ==
  LET sending == Find(comment, SENDING) >= 0
      s1 == IF sending /\ state = STATE_NO_JOB
            THEN STATE_JOB_WAITING_TO_START ELSE state
  IN IF s1 = STATE_JOB_IN_PROGRESS /\ Find(comment, SUCCESS) >= 0
     THEN STATE_JOB_DONE ELSE s1

\* The rewrites without the lock rule: IN_PROGRESS stays IN_PROGRESS.
EffectiveStateNoLockRule(device, state, comment) ==
  IF Find(comment, SENDING) >= 0 /\ state = STATE_NO_JOB
  THEN STATE_JOB_WAITING_TO_START ELSE state

\* The rewrites without the "Sending" rule: NO_JOB stays NO_JOB.
EffectiveStateNoSendingRule(device, state, comment) ==
  IF state = STATE_JOB_IN_PROGRESS /\ ClassName(device) = "VeraLock"
     /\ Find(comment, SUCCESS) >= 0
  THEN STATE_JOB_DONE ELSE state

\* The state after the two rewrites of _event_device: NO_JOB with a comment
\* that contains "Sending" becomes WAITING_TO_START, and IN_PROGRESS on a
\* VeraLock with a comment that contains "SUCCESS!" becomes DONE.
EffectiveState(device, state, comment) ==
  LET sending == Find(comment, SENDING) >= 0
      s1 == IF sending /\ state = STATE_NO_JOB
            THEN STATE_JOB_WAITING_TO_START ELSE state
  IN IF s1 = STATE_JOB_IN_PROGRESS /\ ClassName(device) = "VeraLock"
        /\ Find(comment, SUCCESS) >= 0
     THEN STATE_JOB_DONE ELSE s1

\* The condition under which _event_device goes on to device.update.
Accepted(state, comment) ==
  \/ state = STATE_JOB_DONE
  \/ state = STATE_NOT_PRESENT
  \/ state = STATE_NO_JOB
  \/ (state = STATE_JOB_ERROR
      /\ Truthy(Find(comment, SETTING_USER_CONFIGURATION)))

\* An _event_device that merges the record where it attaches the alerts,
\* before the state is looked at.
EventDeviceMergesFirst(w, device, device_data, device_alerts) ==
  IF device = None THEN w
  ELSE
    LET st == IntOf(Get(device_data, "state", JInt(STATE_NOT_PRESENT)))
        cm == Get(device_data, "comment", JStr(<<>>))
    IN IF ~st.ok THEN [w EXCEPT !.exc = st.exc]
       ELSE IF cm.t # "str" THEN [w EXCEPT !.exc = "AttributeError"]
       ELSE
         LET w1 == update(set_alerts(w, device, device_alerts), device, device_data)
             state == EffectiveState(device, st.v, cm.v)
         IN IF state \in DeferredStates
            THEN [w1 EXCEPT !.deferred = @ \cup {device}]
            ELSE IF ~Accepted(state, cm.v)
            THEN [w1 EXCEPT !.log = Append(@, <<"error", device>>)]
            ELSE CallbackLoop(w1, device, 1)

\* AbstractSubscriptionRegistry._event_device.  w.exc names the exception
\* that escapes, if any.
_event_device(w, device, device_data, device_alerts) ==
  IF device = None THEN w
  ELSE
    LET st == IntOf(Get(device_data, "state", JInt(STATE_NOT_PRESENT)))
        cm == Get(device_data, "comment", JStr(<<>>))
    IN IF ~st.ok THEN [w EXCEPT !.exc = st.exc]
       ELSE IF cm.t # "str" THEN [w EXCEPT !.exc = "AttributeError"]
       ELSE
         LET w1 == set_alerts(w, device, device_alerts)
             state == EffectiveState(device, st.v, cm.v)
         IN IF state \in DeferredStates
            THEN [w1 EXCEPT !.deferred = @ \cup {device}]
            ELSE IF ~Accepted(state, cm.v)
            THEN [w1 EXCEPT !.log = Append(@, <<"error", device>>)]
            ELSE CallbackLoop(update(w1, device, device_data), device, 1)

(***************************************************************************)
(* Dispatch of one poll cycle                                              *)
(***************************************************************************)
RECURSIVE DeviceLoop(_, _, _, _, _)
\* for device in device_list: device_list is the live list kept under the
\* id; an exception that escapes _event_device ends the loop.
DeviceLoop(w, id, i, device_data, device_alerts) ==
  LET device_list == IF id \in DOMAIN w.devices THEN w.devices[id] ELSE <<>>
  IN IF i > Len(device_list) THEN w
     ELSE LET w1 == _event_device(w, device_list[i], device_data, device_alerts)
          IN IF w1.exc # None THEN w1
             ELSE DeviceLoop(w1, id, i + 1, device_data, device_alerts)

\* A loop body that hands the record to the first device object registered
\* under the id only.
ProcessIdFirstOnly(w, device_id, device_data_list, device_alert_list) ==
  LET id == IntOf(device_id)
      datas == SelectSeq(device_data_list,
                         LAMBDA data : Get(data, "id", JNull) = device_id)
      device_alerts == SelectSeq(device_alert_list,
                         LAMBDA alert : Get(alert, "PK_Device", JNull) = device_id)
      device_data == IF datas # <<>> THEN datas[1] ELSE <<>>
      device_list == IF id.ok /\ id.v \in DOMAIN w.devices THEN w.devices[id.v] ELSE <<>>
      w1 == IF ~id.ok THEN [w EXCEPT !.exc = id.exc]
            ELSE IF device_list = <<>> THEN w
            ELSE _event_device(w, device_list[1], device_data, device_alerts)
  IN IF w1.exc # None
     THEN [w1 EXCEPT !.exc = None, !.log = Append(@, <<"exception", device_id>>)]
     ELSE w1

\* A loop body without its try statement: what the processing of the id
\* raises escapes.
ProcessIdUncaught(w, device_id, device_data_list, device_alert_list) ==
  LET id == IntOf(device_id)
      datas == SelectSeq(device_data_list,
                         LAMBDA data : Get(data, "id", JNull) = device_id)
      device_alerts == SelectSeq(device_alert_list,
                         LAMBDA alert : Get(alert, "PK_Device", JNull) = device_id)
      device_data == IF datas # <<>> THEN datas[1] ELSE <<>>
  IN IF ~id.ok THEN [w EXCEPT !.exc = id.exc]
     ELSE DeviceLoop(w, id.v, 1, device_data, device_alerts)

\* A loop body that takes the last record of the id.
ProcessIdLastRecord(w, device_id, device_data_list, device_alert_list) ==
  LET id == IntOf(device_id)
      datas == SelectSeq(device_data_list,
                         LAMBDA data : Get(data, "id", JNull) = device_id)
      device_alerts == SelectSeq(device_alert_list,
                         LAMBDA alert : Get(alert, "PK_Device", JNull) = device_id)
      device_data == IF datas # <<>> THEN datas[Len(datas)] ELSE <<>>
      w1 == IF ~id.ok THEN [w EXCEPT !.exc = id.exc]
            ELSE DeviceLoop(w, id.v, 1, device_data, device_alerts)
  IN IF w1.exc # None
     THEN [w1 EXCEPT !.exc = None, !.log = Append(@, <<"exception", device_id>>)]
     ELSE w1

\* The body of the loop over device_ids, with its try/except: the first
\* record of the id (or {}) and the alerts of the id go to every device
\* object registered under int(device_id).
ProcessId(w, device_id, device_data_list, device_alert_list) ==
  LET id == IntOf(device_id)
      datas == SelectSeq(device_data_list,
                         LAMBDA data : Get(data, "id", JNull) = device_id)
      device_alerts == SelectSeq(device_alert_list,
                         LAMBDA alert : Get(alert, "PK_Device", JNull) = device_id)
      device_data == IF datas # <<>> THEN datas[1] ELSE <<>>
      w1 == IF ~id.ok THEN [w EXCEPT !.exc = id.exc]
            ELSE DeviceLoop(w, id.v, 1, device_data, device_alerts)
  IN IF w1.exc # None
     THEN [w1 EXCEPT !.exc = None, !.log = Append(@, <<"exception", device_id>>)]
     ELSE w1

RECURSIVE IdLoop(_, _, _, _)
\* for device_id in device_ids: an exception that escapes the body ends the
\* loop.
IdLoop(w, order, device_data_list, device_alert_list) ==
  IF order = <<>> \/ w.exc # None THEN w
  ELSE IdLoop(ProcessId(w, Head(order), device_data_list, device_alert_list),
              Tail(order), device_data_list, device_alert_list)

\* isinstance(x, list) on a JSON value
JList(seq) == [t |-> "list", v |-> seq]
IsList(x) == x.t = "list"

\* The ids of the change list alone.
DeviceIdsOfChanges(device_data_list, device_alert_list) ==
  {device_data_list[k].id :
     k \in {j \in 1..Len(device_data_list) : "id" \in DOMAIN device_data_list[j]}}

\* The ids with data in the change list or in the alert list.
device_ids(device_data_list, device_alert_list) ==
  {device_data_list[k].id :
     k \in {j \in 1..Len(device_data_list) : "id" \in DOMAIN device_data_list[j]}}
  \cup
  {device_alert_list[k].PK_Device :
     k \in {j \in 1..Len(device_alert_list) :
              "PK_Device" \in DOMAIN device_alert_list[j]}}

\* The orders in which a set can be iterated.
Orders(S) ==
  {o \in [1..Cardinality(S) -> S] : \A x \in S : \E k \in DOMAIN o : o[k] = x}

\* AbstractSubscriptionRegistry._event; the set device_ids is iterated in
\* the order its members have in order.
_event(w, data_in, alerts_in, order) ==
  LET device_data_list == IF IsList(data_in) THEN data_in.v ELSE <<>>
      device_alert_list == IF IsList(alerts_in) THEN alerts_in.v ELSE <<>>
      ids == device_ids(device_data_list, device_alert_list)
  IN IdLoop(w, SelectSeq(order, LAMBDA id : id \in ids),
            device_data_list, device_alert_list)

EventOrders(data_in, alerts_in) ==
  Orders(device_ids(IF IsList(data_in) THEN data_in.v ELSE <<>>,
                    IF IsList(alerts_in) THEN alerts_in.v ELSE <<>>))

(***************************************************************************)
(* The hub's two endpoints                                                 *)
(***************************************************************************)
\* The cursor a registry starts from, and is reset to after a failed poll.
TIMESTAMP_NONE == [dataversion |-> 1, loadtime |-> 0]

\* What data_request gives: requests raises (connection error, timeout),
\* or a response with a status code and a body.  A body is empty, text
\* that is not JSON, JSON that is not an object, or a JSON object.
NoResponse == [t |-> "RequestException"]
Response(status, body) == [t |-> "response", status |-> status, body |-> body]
EmptyBody == [t |-> "empty"]
Unparseable == [t |-> "unparseable"]
JsonOther == [t |-> "json_other"]
JsonBody(obj) == [t |-> "json", v |-> obj]

\* A check that is content with one of the two keys.
RequestFailureEitherKey(response, key1, key2) ==
  IF response.t = "RequestException" THEN "RequestException"
  ELSE IF response.status >= 400 THEN "RequestException"
  ELSE IF response.body.t = "empty" THEN "PyveraError"
  ELSE IF response.body.t = "unparseable" THEN "PyveraError"
  ELSE IF response.body.t # "json" THEN "PyveraError"
  ELSE IF ~(key1 \in DOMAIN response.body.v \/ key2 \in DOMAIN response.body.v)
  THEN "PyveraError"
  ELSE None

\* The exception, if any, of a request whose JSON object must carry the
\* two keys: requests' own, raise_for_status, the empty body, the JSON
\* decode error, the garbled response.
RequestFailure(response, key1, key2) ==
  IF response.t = "RequestException" THEN "RequestException"
  ELSE IF response.status >= 400 THEN "RequestException"
  ELSE IF response.body.t = "empty" THEN "PyveraError"
  ELSE IF response.body.t = "unparseable" THEN "PyveraError"
  ELSE IF response.body.t # "json" THEN "PyveraError"
  ELSE IF ~(key1 \in DOMAIN response.body.v /\ key2 \in DOMAIN response.body.v)
  THEN "PyveraError"
  ELSE None

\* A get_changed_devices that reads the load time under the key the status
\* endpoint uses, and so always takes the default.
GetChangedDevicesWrongKey(response, timestamp) ==
  LET exc == RequestFailure(response, "loadtime", "dataversion")
  IN IF exc # None THEN [exc |-> exc, request |-> timestamp]
     ELSE [exc |-> None, request |-> timestamp,
           device_data |-> Get(response.body.v, "devices", JList(<<>>)),
           timestamp |->
             [loadtime |-> Get(response.body.v, "LoadTime", 0),
              dataversion |-> Get(response.body.v, "dataversion", 1)]]

\* VeraController.get_changed_devices: request is the cursor the payload
\* of the long-poll carries.
get_changed_devices(response, timestamp) ==
  LET exc == RequestFailure(response, "loadtime", "dataversion")
  IN IF exc # None THEN [exc |-> exc, request |-> timestamp]
     ELSE [exc |-> None, request |-> timestamp,
           device_data |-> Get(response.body.v, "devices", JList(<<>>)),
           timestamp |->
             [loadtime |-> Get(response.body.v, "loadtime", 0),
              dataversion |-> Get(response.body.v, "dataversion", 1)]]

\* VeraController.get_alerts
get_alerts(response, timestamp) ==
  LET exc == RequestFailure(response, "LoadTime", "DataVersion")
      request == [LoadTime |-> timestamp.loadtime,
                  DataVersion |-> timestamp.dataversion]
  IN IF exc # None THEN [issued |-> TRUE, exc |-> exc, request |-> request]
     ELSE [issued |-> TRUE, exc |-> None, request |-> request,
           alert_data |-> Get(response.body.v, "alerts", JList(<<>>))]

\* No alert fetch: alert_data keeps its initial value [].
NotIssued == [issued |-> FALSE, exc |-> None, alert_data |-> JList(<<>>)]

\* AbstractSubscriptionRegistry.get_device_data: without a controller no
\* request is made.
get_device_data(controller, response, last_updated) ==
  IF ~controller THEN [exc |-> "ControllerNotSetException"]
  ELSE get_changed_devices(response, last_updated)

\* AbstractSubscriptionRegistry.get_alert_data
get_alert_data(controller, response, last_updated) ==
  IF ~controller THEN [issued |-> FALSE, exc |-> "ControllerNotSetException"]
  ELSE get_alerts(response, last_updated)

(***************************************************************************)
(* One poll cycle                                                          *)
(***************************************************************************)
\* A test that takes every poll for a data change.
DataChangedEveryPoll(new_timestamp, stored, always_update) == TRUE

\* The test that decides whether the alerts are fetched and the cycle is
\* dispatched.
DataChanged(new_timestamp, stored, always_update) ==
  new_timestamp.dataversion # stored.dataversion \/ always_update

\* An alert fetch that is given the cursor the long-poll just returned.
AlertCursorNew(new_timestamp, stored) == new_timestamp

\* The cursor get_alert_data is given.
AlertCursor(new_timestamp, stored) == stored

\* A cycle that stores the new cursor only when the data changed.
CursorStoredWhenChanged(new_timestamp, stored, data_changed) ==
  IF data_changed THEN new_timestamp ELSE stored

\* The cursor a cycle without error stores.
CursorAfterSuccess(new_timestamp, stored, data_changed) == new_timestamp

\* A failed cycle that keeps the cursor it had.
CursorKeptAfterFailure(stored) == stored

\* The cursor a cycle stores after a RequestException or a PyveraError.
CursorAfterFailure(stored) == [dataversion |-> 1, loadtime |-> 0]

\* The exceptions poll_server_once handles itself.
Caught == {"RequestException", "PyveraError"}

\* The cursor after an exception poll_server_once re-raises.
CursorAfterRaise(stored) == stored

\* A poll_server_once that handles every exception as it handles a
\* RequestException.
PollFailureCatchesAll(w, stored, lp, al) ==
  [w |-> w, cursor |-> CursorAfterFailure(stored), returned |-> FALSE,
   raised |-> None, lp |-> lp, al |-> al, dispatched |-> FALSE]

\* The except clauses of poll_server_once: a RequestException or a
\* PyveraError is logged, the cursor reset and False returned; any other
\* exception is raised again.
PollFailure(w, stored, lp, al) ==
  LET exc == IF lp.exc # None THEN lp.exc ELSE al.exc
  IN IF exc \in Caught
     THEN [w |-> w, cursor |-> CursorAfterFailure(stored), returned |-> FALSE,
           raised |-> None, lp |-> lp, al |-> al, dispatched |-> FALSE]
     ELSE [w |-> w, cursor |-> CursorAfterRaise(stored), returned |-> FALSE,
           raised |-> exc, lp |-> lp, al |-> al, dispatched |-> FALSE]

\* A poll_server_once that dispatches the change list as soon as the
\* long-poll has returned it, before the alerts are fetched.
PollDispatchesFirst(w, controller, stored, always_update, lp_response, al_response, order) ==
  LET lp == get_device_data(controller, lp_response, stored)
  IN IF lp.exc # None
     THEN PollFailure(w, stored, lp, NotIssued)
     ELSE
       LET data_changed == DataChanged(lp.timestamp, stored, always_update)
           al == IF data_changed
                 THEN get_alert_data(controller, al_response,
                                     AlertCursor(lp.timestamp, stored))
                 ELSE NotIssued
           w1 == IF data_changed
                 THEN _event(w, lp.device_data, JList(<<>>), order) ELSE w
       IN IF al.exc # None
          THEN PollFailure(w1, stored, lp, al)
          ELSE [w |-> w1,
                cursor |-> CursorAfterSuccess(lp.timestamp, stored, data_changed),
                returned |-> TRUE, raised |-> None, lp |-> lp, al |-> al,
                dispatched |-> data_changed]

\* AbstractSubscriptionRegistry.poll_server_once on the stored cursor:
\* the world it leaves, the cursor it stores, what it returns or raises,
\* and what the two requests carried and gave.
poll_server_once(w, controller, stored, always_update, lp_response, al_response, order) ==
  LET lp == get_device_data(controller, lp_response, stored)
  IN IF lp.exc # None
     THEN PollFailure(w, stored, lp, NotIssued)
     ELSE
       LET data_changed == DataChanged(lp.timestamp, stored, always_update)
           al == IF data_changed
                 THEN get_alert_data(controller, al_response,
                                     AlertCursor(lp.timestamp, stored))
                 ELSE NotIssued
       IN IF al.exc # None
          THEN PollFailure(w, stored, lp, al)
          ELSE [w |-> IF data_changed \/ always_update
                      THEN _event(w, lp.device_data, al.alert_data, order)
                      ELSE w,
                cursor |-> CursorAfterSuccess(lp.timestamp, stored, data_changed),
                returned |-> TRUE, raised |-> None, lp |-> lp, al |-> al,
                dispatched |-> (data_changed \/ always_update)]

\* The orders in which a set of the ids the hub reports can be iterated.
PollOrders == Orders({JInt(id) : id \in DeviceIds})

(***************************************************************************)
(* State                                                                   *)
(***************************************************************************)
VARIABLES
  devices,     \* _devices: device id -> list of device objects
  callbacks,   \* _callbacks: device object -> list of callbacks
  dev_info,    \* the cached deviceInfo mapping of each json item (by id)
  alerts,      \* device object -> its attached alerts
  op,          \* the last register / unregister call, with its arguments
  raised,      \* the exception that call raised, or None
  cycle,       \* the last _event call made since, with its arguments
  calls,       \* the callback invocations of that _event call, in order
  updates,     \* its device.update calls, in order
  log,         \* its LOG.error / LOG.exception records, in order
  seen,        \* what each of those invocations saw of its device
  deferred,    \* the device objects whose record it deferred
  was_deferred, \* the same of the _event call before it
  had_alerts,  \* the device objects that had alerts attached before it
  subscribed,  \* (device, callback) -> register calls not yet undone by a
               \* successful unregister call
  never_registered, \* no register call has added a registration so far
  last_updated, \* _last_updated: the stored cursor
  always,      \* what always_update() returns for this registry
  poll,        \* the last poll_server_once call: its requests and results
  main,        \* where the thread that calls start() and stop() is
  threads,     \* where each poll thread is in _run_poll_server, one per
               \* start() call, in the order of the calls
  exiting,     \* the flag of the event _exiting refers to
  controller,  \* a controller is set (_controller is not None)
  lock_target, \* lock_target of the lock: NoTarget or state and time of the call
  now,         \* what time.time() returns, in seconds
  reply        \* what the last is_locked call returned

pollvars == <<last_updated, always, poll, main, threads, exiting, controller>>

\* _poll_thread: where the thread of the last start() call is.
thread == IF threads = <<>> THEN "none" ELSE threads[Len(threads)]

lockvars == <<lock_target, now, reply>>

vars ==
  <<devices, callbacks, dev_info, alerts, op, raised, cycle, calls, seen,
    updates, log, deferred, was_deferred, had_alerts, subscribed,
    never_registered, pollvars, lockvars>>

NoPoll == [t |-> "none"]

NoCycle == [t |-> "none"]

\* The registry and the devices as one value, with empty observation logs.
World ==
  [devices |-> devices, callbacks |-> callbacks, dev_info |-> dev_info,
   alerts |-> alerts, calls |-> <<>>, seen |-> <<>>, updates |-> <<>>,
   log |-> <<>>, deferred |-> {}, exc |-> None]

InitDevInfo ==
  [id \in DeviceIds |->
     IF id = DEVICE_LOCK_ID
     THEN [id |-> JInt(DEVICE_LOCK_ID), locked |-> JStr(<<"0">>), comment |-> JStr(<<>>)]
     ELSE [id |-> JInt(DEVICE_DOOR_SENSOR_ID), tripped |-> JStr(<<"0">>), comment |-> JStr(<<>>)]]

\* The state after construction: nothing registered.
EmptyWorld ==
  [devices |-> [id \in DeviceIds |-> <<>>],
   callbacks |-> [d \in Devices |-> <<>>],
   dev_info |-> InitDevInfo,
   alerts |-> [d \in Devices |-> <<>>],
   calls |-> <<>>, seen |-> <<>>, updates |-> <<>>, log |-> <<>>,
   deferred |-> {}, exc |-> None]

RECURSIVE SumLen(_, _)
SumLen(cbs, S) ==
  IF S = {} THEN 0
  ELSE LET d == CHOOSE x \in S : TRUE IN Len(cbs[d]) + SumLen(cbs, S \ {d})

\* Number of registrations held.
Registrations(cbs) == SumLen(cbs, Devices)

\* The registry and the devices after a call.
Holds(w) ==
  /\ devices' = w.devices
  /\ callbacks' = w.callbacks
  /\ dev_info' = w.dev_info
  /\ alerts' = w.alerts

\* The count of calls still in force after a call.
Subscribed(w, call) ==
  IF <<call.device, call.callback>> \notin DOMAIN subscribed THEN subscribed
  ELSE IF call.name = "register"
  THEN [subscribed EXCEPT ![<<call.device, call.callback>>] = @ + 1]
  ELSE IF w.exc = None /\ subscribed[<<call.device, call.callback>>] > 0
  THEN [subscribed EXCEPT ![<<call.device, call.callback>>] = @ - 1]
  ELSE subscribed

\* The state a register / unregister call leaves behind.
AfterCall(w, call) ==
  /\ Holds(w)
  /\ subscribed' = Subscribed(w, call)
  /\ never_registered' =
       (never_registered /\ ~(call.name = "register" /\ call.device # None))
  /\ op' = call
  /\ raised' = w.exc
  /\ cycle' = NoCycle
  /\ calls' = <<>>
  /\ seen' = <<>>
  /\ updates' = <<>>
  /\ log' = <<>>
  /\ deferred' = {}
  /\ was_deferred' = {}
  /\ had_alerts' = {}
  /\ UNCHANGED <<pollvars, lockvars>>

\* The state an _event call leaves behind.
AfterEvent(w, data, alert_data) ==
  /\ Holds(w)
  /\ UNCHANGED <<op, raised, subscribed, never_registered>>
  /\ cycle' = [t |-> "_event", data |-> data, alerts |-> alert_data]
  /\ calls' = w.calls
  /\ seen' = w.seen
  /\ updates' = w.updates
  /\ log' = w.log
  /\ deferred' = w.deferred
  /\ was_deferred' = deferred
  /\ had_alerts' = {d \in Devices : alerts[d] # <<>>}
  /\ UNCHANGED <<pollvars, lockvars>>

Register ==
  \E device \in Devices \cup {None}, callback \in Callbacks :
    /\ device # None => Registrations(callbacks) < MaxReg
    /\ AfterCall(register(World, device, callback),
                 [name |-> "register", device |-> device, callback |-> callback])

\* register calls that give the lock a plain callback or one that
\* unregisters itself.
RegisterSelfRemoving ==
  \E callback \in {"cb1"} \cup SelfRemoving :
    /\ Registrations(callbacks) < MaxReg
    /\ AfterCall(register(World, "lock", callback),
                 [name |-> "register", device |-> "lock", callback |-> callback])

Unregister ==
  \E device \in Devices \cup {None}, callback \in Callbacks :
    AfterCall(unregister(World, device, callback),
              [name |-> "unregister", device |-> device, callback |-> callback])

(***************************************************************************)
(* Hub data                                                                *)
(***************************************************************************)
BOLT == <<"B","o","l","t">>
COLON == <<":"," ">>
DOTS == <<".",".",".">>

\* The comments the hub sends: a plain one, one per literal the job state
\* machine looks for, and the benign error at index 0 and later.
Comments ==
  {BOLT,
   BOLT \o COLON \o SENDING,
   BOLT \o COLON \o SUCCESS,
   SETTING_USER_CONFIGURATION \o DOTS,
   BOLT \o COLON \o SETTING_USER_CONFIGURATION}

\* A job code the library has no name for.
UnknownCode == 8

JobCodes ==
  {STATE_NO_JOB, STATE_JOB_WAITING_TO_START, STATE_JOB_IN_PROGRESS,
   STATE_JOB_ERROR, STATE_JOB_ABORTED, STATE_JOB_DONE,
   STATE_JOB_WAITING_FOR_CALLBACK, STATE_JOB_REQUEUE, STATE_JOB_PENDING_DATA,
   UnknownCode}

\* The "state" field: absent, a job code, or a job code as a JSON string.
StateFields ==
  {<<>>} \cup {("state" :> JInt(c)) : c \in JobCodes}
         \cup {("state" :> JStr(<<"1">>))}

CommentFields == {<<>>} \cup {("comment" :> JStr(c)) : c \in Comments}

\* The attribute a change record of the id carries.
Attributes(id) ==
  IF id = DEVICE_LOCK_ID THEN ("locked" :> JStr(<<"1">>))
  ELSE ("tripped" :> JStr(<<"1">>))

\* Every change record of the model.
Records ==
  {("id" :> JInt(id)) @@ Attributes(id) @@ sf @@ cf :
     id \in DeviceIds, sf \in StateFields, cf \in CommentFields}

\* A change record with a job code and no comment.
Record(id, code) ==
  ("id" :> JInt(id)) @@ Attributes(id) @@ ("state" :> JInt(code))

Alert(id) == [PK_Device |-> JInt(id), Code |-> JStr(<<"L","O","W">>)]

\* What poll_server_once hands to _event: the "devices" of the long-poll
\* response and the "alerts" of the status response.
NoAlerts == JList(<<>>)

\* The cycles of the registry specification: a finished or an aborted job
\* per id, both ids at once, a cycle that carries only an alert, and one
\* with a record for one id and an alert for the other.
CycleRecords ==
  {Record(id, code) :
     id \in DeviceIds, code \in {STATE_JOB_DONE, STATE_JOB_ABORTED}}

CycleData ==
  {JNull, JList(<<>>)} \cup {JList(<<r>>) : r \in CycleRecords}
  \cup {JList(<<Record(DEVICE_LOCK_ID, STATE_JOB_DONE), Record(DEVICE_DOOR_SENSOR_ID, STATE_JOB_DONE)>>)}

Cycles ==
  (CycleData \X {NoAlerts})
  \cup {<<JList(<<>>), JList(<<Alert(DEVICE_LOCK_ID)>>)>>,
        <<JList(<<Record(DEVICE_DOOR_SENSOR_ID, STATE_JOB_DONE)>>),
          JList(<<Alert(DEVICE_LOCK_ID)>>)>>}

\* The cycles of the job state machine specification: one record of any
\* state and comment.
JobData == {JList(<<r>>) : r \in Records}

\* A change record with a job code and the attribute value the hub reports.
RecordWith(id, code, value) ==
  ("id" :> JInt(id))
    @@ (IF id = DEVICE_LOCK_ID THEN ("locked" :> JStr(value))
        ELSE ("tripped" :> JStr(value)))
    @@ ("state" :> JInt(code))

\* A finished job whose comment is null: comment.find raises.
NullComment(id) == Record(id, STATE_JOB_DONE) @@ ("comment" :> JNull)

\* The cycles of the mixed-cycle specification: two records, for one id or
\* for both, each a finished job (attribute on or off), an aborted job or
\* a record whose processing raises.
MixRecords ==
  UNION {{RecordWith(id, STATE_JOB_DONE, <<"1">>),
          RecordWith(id, STATE_JOB_DONE, <<"0">>),
          RecordWith(id, STATE_JOB_ABORTED, <<"1">>),
          NullComment(id)} : id \in DeviceIds}

MixData == {JList(<<r1, r2>>) : r1 \in MixRecords, r2 \in MixRecords}

(***************************************************************************)
(* Dispatch                                                                *)
(***************************************************************************)
Dispatch(data, alert_data) ==
  \E order \in EventOrders(data, alert_data) :
    AfterEvent(_event(World, data, alert_data, order), data, alert_data)

Event == \E c \in Cycles : Dispatch(c[1], c[2])

JobEvent == \E data \in JobData : Dispatch(data, NoAlerts)

MixEvent == \E data \in MixData : Dispatch(data, NoAlerts)

(***************************************************************************)
(* Specifications                                                          *)
(***************************************************************************)
Observed(w) ==
  /\ devices = w.devices
  /\ callbacks = w.callbacks
  /\ dev_info = w.dev_info
  /\ alerts = w.alerts
  /\ raised = None
  /\ cycle = NoCycle
  /\ calls = <<>>
  /\ seen = <<>>
  /\ updates = <<>>
  /\ log = <<>>
  /\ deferred = {}
  /\ was_deferred = {}
  /\ had_alerts = {}
  /\ last_updated = TIMESTAMP_NONE
  /\ poll = NoPoll
  /\ main = "init"
  /\ threads = <<>>
  /\ exiting = FALSE
  /\ controller = TRUE
  /\ lock_target = NoTarget
  /\ now = 0
  /\ reply = None

\* The registry: register, unregister and dispatch in any interleaving.
Init ==
  /\ Observed(EmptyWorld)
  /\ op = [name |-> "__init__"]
  /\ subscribed = [p \in Devices \X Callbacks |-> 0]
  /\ never_registered = TRUE
  /\ always = FALSE

Next == Register \/ Unregister \/ Event

Spec == Init /\ [][Next]_vars

\* The job state machine: every device object registered once before
\* polling starts, then cycles that carry any record.
RegisteredOnce ==
  register(register(register(EmptyWorld, "lock", "cb1"), "sensor", "cb1"),
           "armable", "cb2")

InitJobs ==
  /\ Observed(RegisteredOnce)
  /\ op = [name |-> "register", device |-> "armable", callback |-> "cb2"]
  /\ subscribed =
       [p \in Devices \X Callbacks |->
          IF p \in {<<"lock", "cb1">>, <<"sensor", "cb1">>, <<"armable", "cb2">>}
          THEN 1 ELSE 0]
  /\ never_registered = FALSE
  /\ always = FALSE

NextJobs == JobEvent

SpecJobs == InitJobs /\ [][NextJobs]_vars

\* Callbacks that call unregister while they are dispatched.
NextReentrant == RegisterSelfRemoving \/ Event

SpecReentrant == Init /\ [][NextReentrant]_vars

\* The lock: lock(), unlock() and is_locked() calls, cached values that
\* the poll loop merges in between, and a clock.
SetLockState ==
  \E state \in {<<"0">>, <<"1">>}, done \in BOOLEAN :
    LET call == [name |-> IF state = <<"1">> THEN "lock" ELSE "unlock"]
        r == set_lock_state(dev_info[DEVICE_LOCK_ID], state, now)
    IN /\ op' = call
       /\ raised' = IF done THEN None ELSE "RequestException"
       /\ dev_info' = IF done THEN [dev_info EXCEPT ![DEVICE_LOCK_ID] = r.info]
                             ELSE dev_info
       /\ lock_target' = IF done THEN r.lock_target ELSE lock_target
       /\ UNCHANGED <<devices, callbacks, alerts, cycle, calls, seen, updates,
                      log, deferred, was_deferred, had_alerts, subscribed,
                      never_registered, pollvars, now, reply>>

IsLocked ==
  LET r == is_locked(dev_info[DEVICE_LOCK_ID], lock_target, now)
  IN /\ op' = [name |-> "is_locked"]
     /\ raised' = None
     /\ lock_target' = r.lock_target
     /\ reply' = r.locked
     /\ UNCHANGED <<devices, callbacks, dev_info, alerts, cycle, calls, seen,
                    updates, log, deferred, was_deferred, had_alerts,
                    subscribed, never_registered, pollvars, now>>

\* The poll loop merges a record that carries the lock's "locked".
LockUpdate ==
  \E value \in {<<"0">>, <<"1">>} :
    /\ op' = [name |-> "update"]
    /\ raised' = None
    /\ dev_info' = [dev_info EXCEPT ![DEVICE_LOCK_ID] =
                      Merge(@, ("locked" :> JStr(value)))]
    /\ UNCHANGED <<devices, callbacks, alerts, cycle, calls, seen, updates,
                   log, deferred, was_deferred, had_alerts, subscribed,
                   never_registered, pollvars, lockvars>>

\* A second passes.
Tick ==
  /\ now < MaxTime
  /\ now' = now + 1
  /\ UNCHANGED <<devices, callbacks, dev_info, alerts, op, raised, cycle,
                 calls, seen, updates, log, deferred, was_deferred,
                 had_alerts, subscribed, never_registered, pollvars,
                 lock_target, reply>>

NextLock == SetLockState \/ IsLocked \/ LockUpdate \/ Tick

SpecLock == Init /\ [][NextLock]_vars

\* Cycles of two records on the same registry.
NextMix == MixEvent

SpecMix == InitJobs /\ [][NextMix]_vars

(***************************************************************************)
(* The poll thread                                                         *)
(***************************************************************************)
DataVersions == {1, 2}
LoadTimes == {0, 10}

\* The change list of a long-poll response: both ids report a finished job.
BothDone ==
  JList(<<Record(DEVICE_LOCK_ID, STATE_JOB_DONE),
          Record(DEVICE_DOOR_SENSOR_ID, STATE_JOB_DONE)>>)

\* The JSON objects of the lu_sdata endpoint: the two cursor fields, with
\* or without "devices".
SdataObjects ==
  {("loadtime" :> lt) @@ ("dataversion" :> dv) @@ dl :
     lt \in LoadTimes, dv \in DataVersions,
     dl \in {<<>>, ("devices" :> BothDone)}}

LongPollResponses ==
  {NoResponse, Response(500, EmptyBody), Response(200, EmptyBody),
   Response(200, Unparseable), Response(200, JsonOther),
   Response(200, JsonBody(("loadtime" :> 10) @@ ("devices" :> BothDone))),
   Response(200, JsonBody(("dataversion" :> 2) @@ ("devices" :> BothDone)))}
  \cup {Response(200, JsonBody(obj)) : obj \in SdataObjects}

\* The JSON objects of the status endpoint, with or without "alerts".
StatusObjects ==
  {("LoadTime" :> 10) @@ ("DataVersion" :> 2) @@ al :
     al \in {<<>>, ("alerts" :> JList(<<Alert(DEVICE_LOCK_ID)>>))}}

AlertResponses ==
  {NoResponse, Response(200, EmptyBody), Response(200, Unparseable),
   Response(200, JsonOther), Response(200, JsonBody(("LoadTime" :> 10))),
   Response(200, JsonBody(("DataVersion" :> 2)
                            @@ ("alerts" :> JList(<<Alert(DEVICE_LOCK_ID)>>))))}
  \cup {Response(200, JsonBody(obj)) : obj \in StatusObjects}

\* The threads that have not left _run_poll_server.
Live == {i \in 1..Len(threads) : threads[i] \in {"wait", "poll", "retry"}}

\* The state a poll_server_once call of thread i leaves behind; the thread
\* goes back to the wait of a second, or to the wait of SUBSCRIPTION_RETRY
\* seconds after a failed call, or ends with the exception the call raised.
\* stopping: the event was set when the call was made; first: the call is
\* the first one of its thread; retried: the call before it returned False;
\* answer: what the hub gave to the alert fetch, if one was made.
AfterPoll(r, lp_response, al_response, i) ==
  /\ Holds(r.w)
  /\ last_updated' = r.cursor
  /\ poll' = [t |-> "poll", before |-> last_updated, response |-> lp_response,
              lp |-> r.lp, al |-> r.al, returned |-> r.returned,
              raised |-> r.raised, by |-> i, stopping |-> exiting,
              answer |-> IF r.al.issued THEN al_response ELSE None,
              first |-> ~(poll.t = "poll" /\ poll.by = i),
              retried |-> (poll.t = "poll" /\ poll.raised = None
                           /\ ~poll.returned)]
  /\ cycle' = IF r.dispatched
              THEN [t |-> "_event", data |-> r.lp.device_data,
                    alerts |-> r.al.alert_data]
              ELSE NoCycle
  /\ calls' = r.w.calls
  /\ seen' = r.w.seen
  /\ updates' = r.w.updates
  /\ log' = r.w.log
  /\ deferred' = r.w.deferred
  /\ was_deferred' = deferred
  /\ had_alerts' = {d \in Devices : alerts[d] # <<>>}
  /\ threads' = [threads EXCEPT ![i] = IF r.raised # None THEN "died"
                                       ELSE IF r.returned THEN "wait"
                                       ELSE "retry"]
  /\ UNCHANGED <<op, raised, subscribed, never_registered, always, main,
                 exiting, controller, lockvars>>

regvars ==
  <<devices, callbacks, dev_info, alerts, op, raised, cycle, calls, seen,
    updates, log, deferred, was_deferred, had_alerts, subscribed, never_registered,
    lockvars>>

\* SubscriptionRegistry.start: a new thread and a new, clear event.
Start ==
  /\ main = "init"
  /\ main' = "running"
  /\ threads' = Append(threads, "wait")
  /\ exiting' = FALSE
  /\ UNCHANGED <<regvars, last_updated, always, poll, controller>>

\* SubscriptionRegistry.start after a stop() that has returned.
Restart ==
  /\ main = "stopped"
  /\ Len(threads) < MaxStarts
  /\ main' = "running"
  /\ threads' = Append(threads, "wait")
  /\ exiting' = FALSE
  /\ UNCHANGED <<regvars, last_updated, always, poll, controller>>

\* AbstractSubscriptionRegistry.set_controller, with a controller or None.
SetController ==
  /\ controller' = ~controller
  /\ UNCHANGED <<regvars, last_updated, always, poll, main, threads, exiting>>

\* A loop that tests the event only after a poll has failed.
ThreadWaitIgnoresEvent ==
  \E i \in 1..Len(threads) :
    /\ threads[i] = "wait"
    /\ threads' = [threads EXCEPT ![i] = "poll"]
    /\ UNCHANGED <<regvars, last_updated, always, poll, main, exiting,
                   controller>>

\* while not self._exiting.wait(timeout=1): the thread leaves the loop once
\* the event is set, and polls otherwise.
ThreadWait ==
  \E i \in 1..Len(threads) :
    /\ threads[i] = "wait"
    /\ threads' = [threads EXCEPT ![i] = IF exiting THEN "exited" ELSE "poll"]
    /\ UNCHANGED <<regvars, last_updated, always, poll, main, exiting,
                   controller>>

\* The poll_server_once call of the loop, on the answers the hub may give.
PollOn(lp_responses, al_responses) ==
  \E i \in 1..Len(threads) :
    /\ threads[i] = "poll"
    /\ \E lp_response \in lp_responses, al_response \in al_responses :
         \E order \in PollOrders :
           AfterPoll(poll_server_once(World, controller, last_updated, always,
                                      lp_response, al_response, order),
                     lp_response, al_response, i)

Poll == PollOn(LongPollResponses, AlertResponses)

\* A loop that ends when a poll has failed.
RetryWaitExits ==
  \E i \in 1..Len(threads) :
    /\ threads[i] = "retry"
    /\ threads' = [threads EXCEPT ![i] = "exited"]
    /\ UNCHANGED <<regvars, last_updated, always, poll, main, exiting,
                   controller>>

\* self._exiting.wait(timeout=SUBSCRIPTION_RETRY) after a failed poll: the
\* wait ends when the delay has passed or the event is set, and the loop
\* goes back to its test of the event.
RetryWait ==
  \E i \in 1..Len(threads) :
    /\ threads[i] = "retry"
    /\ threads' = [threads EXCEPT ![i] = "wait"]
    /\ UNCHANGED <<regvars, last_updated, always, poll, main, exiting,
                   controller>>

\* stop(), up to the join: the event is set.
StopSet ==
  /\ main = "running"
  /\ main' = "joining"
  /\ exiting' = TRUE
  /\ UNCHANGED <<regvars, last_updated, always, poll, threads, controller>>

\* A stop() that returns without joining the poll thread.
StopWithoutJoin ==
  /\ main = "joining"
  /\ main' = "stopped"
  /\ UNCHANGED <<regvars, last_updated, always, poll, threads, exiting,
                 controller>>

\* stop(), from the join on: join returns once the poll thread has ended.
StopJoin ==
  /\ main = "joining"
  /\ thread \in {"exited", "died"}
  /\ main' = "stopped"
  /\ UNCHANGED <<regvars, last_updated, always, poll, threads, exiting,
                 controller>>

\* The poll loop: a raising and a plain callback on the lock, a callback
\* on the sensor, registered before start().  The registry has its
\* controller (VeraController.__init__ sets it), so get_device_data and
\* get_alert_data reach the hub.
PollRegistry ==
  register(register(register(EmptyWorld, "lock", "cb2"), "lock", "cb1"),
           "sensor", "cb1")

InitPoll ==
  /\ Observed(PollRegistry)
  /\ op = [name |-> "register", device |-> "sensor", callback |-> "cb1"]
  /\ subscribed =
       [p \in Devices \X Callbacks |->
          IF p \in {<<"lock", "cb2">>, <<"lock", "cb1">>, <<"sensor", "cb1">>}
          THEN 1 ELSE 0]
  /\ never_registered = FALSE
  /\ always \in BOOLEAN

NextPoll == Start \/ ThreadWait \/ Poll \/ RetryWait \/ StopSet \/ StopJoin

SpecPoll == InitPoll /\ [][NextPoll]_vars

\* Sessions: start() and stop() in alternation, the controller set or
\* cleared at any time, a hub that fails or reports a change.
LifeLongPolls ==
  {NoResponse, Response(200, EmptyBody),
   Response(200, JsonBody(("loadtime" :> 10) @@ ("dataversion" :> 2)
                            @@ ("devices" :> BothDone)))}

LifeAlerts ==
  {Response(200, JsonBody(("LoadTime" :> 10) @@ ("DataVersion" :> 2)))}

PollLife == PollOn(LifeLongPolls, LifeAlerts)

NextLife ==
  \/ Start \/ Restart \/ SetController \/ ThreadWait \/ PollLife
  \/ RetryWait \/ StopSet \/ StopJoin

SpecLife == InitPoll /\ [][NextLife]_vars

\* The threads are scheduled: a wait that has timed out or been
\* interrupted, a poll_server_once call (the long-poll has a timeout) and a
\* join whose thread has ended all take their step.
SpecLifeFair ==
  /\ SpecLife
  /\ WF_vars(ThreadWait) /\ WF_vars(PollLife) /\ WF_vars(RetryWait)
  /\ WF_vars(StopJoin)

(***************************************************************************)
(* Vocabulary of the properties                                            *)
(***************************************************************************)
IsEvent == cycle.t = "_event"

\* The change list of the last cycle.
CycleList == IF IsEvent /\ IsList(cycle.data) THEN cycle.data.v ELSE <<>>

RecordsOf(id) ==
  {k \in 1..Len(CycleList) : Get(CycleList[k], "id", JNull) = JInt(id)}

\* The cycle carries a change record for the id; its first one.
HasRecord(id) == RecordsOf(id) # {}
RecordOf(id) ==
  CycleList[CHOOSE k \in RecordsOf(id) : \A j \in RecordsOf(id) : k <= j]

\* The job code a record carries, as a number or as a numeric string.
HasCode(r, code) ==
  /\ "state" \in DOMAIN r
  /\ \/ r.state = JInt(code)
     \/ (code = STATE_JOB_IN_PROGRESS /\ r.state = JStr(<<"1">>))

CodeOf(r) ==
  IF "state" \in DOMAIN r
  THEN CHOOSE c \in JobCodes : HasCode(r, c)
  ELSE STATE_NOT_PRESENT

CommentOf(r) == IF "comment" \in DOMAIN r THEN r.comment.v ELSE <<>>

\* sub occurs in s
Contains(s, sub) ==
  \E i \in 1..(Len(s) - Len(sub) + 1) : SubSeq(s, i, i + Len(sub) - 1) = sub

\* The first record of the id in the last cycle: a finished job without
\* comment, an aborted job, a record whose comment is null.
Finished(id) ==
  /\ HasRecord(id)
  /\ HasCode(RecordOf(id), STATE_JOB_DONE)
  /\ "comment" \notin DOMAIN RecordOf(id)
Aborted(id) ==
  /\ HasRecord(id)
  /\ HasCode(RecordOf(id), STATE_JOB_ABORTED)
Raises(id) ==
  /\ HasRecord(id)
  /\ "comment" \in DOMAIN RecordOf(id)
  /\ RecordOf(id).comment = JNull

\* The last cycle carries a finished job (DONE, no comment) for the device.
DoneChange(d) ==
  /\ HasRecord(vera_device_id(d))
  /\ HasCode(RecordOf(vera_device_id(d)), STATE_JOB_DONE)

CallCount(cb, d) == Count(calls, <<cb, d>>)
CallsOn(d) == Cardinality({k \in 1..Len(calls) : calls[k][2] = d})
UpdateCount(d) == Cardinality({k \in 1..Len(updates) : updates[k][1] = d})

\* register calls in force for the device, over all callbacks
SubscribedTo(d) == subscribed[<<d, "cb1">>] + subscribed[<<d, "cb2">>]

\* The alert list of the last cycle, and the alerts it carries for the id.
CycleAlerts == IF IsEvent /\ IsList(cycle.alerts) THEN cycle.alerts.v ELSE <<>>
AlertsOf(id) ==
  SelectSeq(CycleAlerts, LAMBDA a : Get(a, "PK_Device", JNull) = JInt(id))

\* A poll_server_once call has been made; what became of its requests.
IsPoll == poll.t = "poll"
LongPollOk == IsPoll /\ poll.lp.exc = None
AlertFailed == IsPoll /\ poll.al.exc # None
PollFailed == IsPoll /\ (poll.lp.exc # None \/ poll.al.exc # None)

\* The device object is reached by the dispatch of the step: it is
\* registered and its id is in the change list or the alert list.
Touched(d) ==
  /\ SubscribedTo(d) > 0
  /\ JInt(vera_device_id(d)) \in device_ids(CycleList', CycleAlerts')

\* The hub answered the request with success status and a body that is
\* not a JSON object with the two keys.
Malformed(response, key1, key2) ==
  /\ response.t = "response"
  /\ response.status < 400
  /\ \/ response.body.t \in {"empty", "unparseable", "json_other"}
     \/ /\ response.body.t = "json"
        /\ {key1, key2} \cap DOMAIN response.body.v # {key1, key2}

\* What the last cycle did with the record of the device object.
Delivered(d) == UpdateCount(d) > 0
Deferred(d) == d \in deferred
LoggedError(d) == InSeq(log, <<"error", d>>)

\* The class of a record by the device's class, its state and its comment.
Classify(d, code, comment) ==
  LET state == EffectiveState(d, code, comment)
  IN IF state \in DeferredStates THEN "DEFER"
     ELSE IF Accepted(state, comment) THEN "DELIVER"
     ELSE "LOG_ERROR"

\* The step is a poll_server_once call.
PollStep ==
  \E i \in 1..Len(threads) : threads[i] = "poll" /\ threads'[i] # "poll"

\* The long-poll returned the dataversion the stored cursor had.
SameVersion == poll.lp.timestamp.dataversion = poll.before.dataversion

(***************************************************************************)
(* Properties                                                              *)
(***************************************************************************)
\* C1: after register(d, cb1) and register(d, cb2), one delivered change
\* for d's id invokes cb1 exactly once and cb2 exactly once, with d.
C1_EachCallbackOnce ==
  \A d \in Devices :
    (/\ subscribed[<<d, "cb1">>] = 1
     /\ subscribed[<<d, "cb2">>] = 1
     /\ DoneChange(d))
    => /\ CallCount("cb1", d) = 1
       /\ CallCount("cb2", d) = 1

\* C2: a record with state ERROR and comment "Setting user configuration..."
\* is delivered: update is called with the record and the callbacks
\* registered for the device are invoked.
C2_BenignErrorDelivered ==
  \A d \in Devices :
    (/\ HasRecord(vera_device_id(d))
     /\ HasCode(RecordOf(vera_device_id(d)), STATE_JOB_ERROR)
     /\ CommentOf(RecordOf(vera_device_id(d))) = SETTING_USER_CONFIGURATION \o DOTS)
    => /\ InSeq(updates, <<d, RecordOf(vera_device_id(d))>>)
       /\ \A cb \in Callbacks : subscribed[<<d, cb>>] > 0 => CallCount(cb, d) > 0

\* C3: a record with state ERROR whose comment does not contain "Setting
\* user configuration" is logged as an error: no update call and no
\* callback for the device in that cycle.
C3_OtherErrorDropped ==
  \A d \in Devices :
    (/\ HasRecord(vera_device_id(d))
     /\ HasCode(RecordOf(vera_device_id(d)), STATE_JOB_ERROR)
     /\ ~Contains(CommentOf(RecordOf(vera_device_id(d))), SETTING_USER_CONFIGURATION))
    => /\ UpdateCount(d) = 0
       /\ CallsOn(d) = 0

\* C4: a record whose effective state is WAITING_TO_START, IN_PROGRESS,
\* WAITING_FOR_CALLBACK, REQUEUE or PENDING_DATA causes no update call and
\* no callback; and a device registered once with one callback whose record
\* was deferred in the cycle before has that callback invoked exactly once
\* by a cycle that carries DONE for its id.
C4_DeferredThenDeliveredOnce ==
  \A d \in Devices :
    HasRecord(vera_device_id(d)) =>
      LET r == RecordOf(vera_device_id(d))
      IN /\ EffectiveState(d, CodeOf(r), CommentOf(r))
              \in {STATE_JOB_WAITING_TO_START, STATE_JOB_IN_PROGRESS,
                   STATE_JOB_WAITING_FOR_CALLBACK, STATE_JOB_REQUEUE,
                   STATE_JOB_PENDING_DATA}
            => (UpdateCount(d) = 0 /\ CallsOn(d) = 0)
         /\ (/\ d \in was_deferred
             /\ HasCode(r, STATE_JOB_DONE)
             /\ SubscribedTo(d) = 1)
            => /\ CallsOn(d) = 1
               /\ \A cb \in Callbacks :
                    subscribed[<<d, cb>>] = 1 => CallCount(cb, d) = 1

C4_Witness ==
  \E d \in Devices :
    /\ d \in was_deferred
    /\ DoneChange(d)
    /\ SubscribedTo(d) = 1
    /\ CallsOn(d) = 1
    /\ UpdateCount(d) = 1

\* C5: for a VeraLock, a record with state IN_PROGRESS and a comment that
\* contains "SUCCESS!" is delivered (update called once, with the record);
\* with a comment that lacks "SUCCESS!", or none, it is deferred (update
\* not called).
C5_LockSuccess ==
  \A d \in Devices :
    (/\ ClassName(d) = "VeraLock"
     /\ HasRecord(vera_device_id(d))
     /\ HasCode(RecordOf(vera_device_id(d)), STATE_JOB_IN_PROGRESS))
    => LET r == RecordOf(vera_device_id(d))
       IN IF Contains(CommentOf(r), SUCCESS)
          THEN updates = << <<d, r>> >>
          ELSE UpdateCount(d) = 0

C5_Witness ==
  \E d \in Devices :
    /\ ClassName(d) = "VeraLock"
    /\ HasRecord(vera_device_id(d))
    /\ HasCode(RecordOf(vera_device_id(d)), STATE_JOB_IN_PROGRESS)
    /\ Contains(CommentOf(RecordOf(vera_device_id(d))), SUCCESS)
    /\ updates = << <<d, RecordOf(vera_device_id(d))>> >>

\* C6: a record with state NO_JOB whose comment contains "Sending" is
\* deferred (no update call, no callback); with a comment that does not
\* contain "Sending" it is delivered.
C6_SendingDefers ==
  \A d \in Devices :
    (/\ HasRecord(vera_device_id(d))
     /\ HasCode(RecordOf(vera_device_id(d)), STATE_NO_JOB))
    => LET r == RecordOf(vera_device_id(d))
       IN IF Contains(CommentOf(r), SENDING)
          THEN UpdateCount(d) = 0 /\ CallsOn(d) = 0
          ELSE /\ InSeq(updates, <<d, r>>)
               /\ \A cb \in Callbacks :
                    subscribed[<<d, cb>>] > 0 => CallCount(cb, d) > 0

C6_Witness ==
  \E d \in Devices :
    /\ HasRecord(vera_device_id(d))
    /\ HasCode(RecordOf(vera_device_id(d)), STATE_NO_JOB)
    /\ Contains(CommentOf(RecordOf(vera_device_id(d))), SENDING)
    /\ SubscribedTo(d) > 0
    /\ d \in deferred
    /\ UpdateCount(d) = 0

\* C7: once unregister(d, cb) has undone register(d, cb), so that no
\* registration of cb for d is in force, no delivered change invokes cb
\* with d.
C7_UnregisteredNotInvoked ==
  \A d \in Devices, cb \in Callbacks :
    (IsEvent /\ subscribed[<<d, cb>>] = 0) => CallCount(cb, d) = 0

C7_Witness ==
  \E d \in Devices, cb \in Callbacks :
    /\ op = [name |-> "unregister", device |-> d, callback |-> cb]
    /\ raised = None
    /\ subscribed[<<d, cb>>] = 0
    /\ DoneChange(d)
    /\ UpdateCount(d) > 0
    /\ CallsOn(d) > 0
    /\ CallCount(cb, d) = 0

\* C8: unregister(d, cb) for a pair that was never registered does not
\* raise.
C8_CleanMissDoesNotRaise ==
  (/\ never_registered
   /\ op.name = "unregister"
   /\ op.device # None)
  => raised = None

\* C9: a successful unregister(d, cb) removes exactly one callback entry of
\* cb for d and one entry of d under its id, so the entries kept equal the
\* register calls still in force; after two register(d, cb) and one
\* unregister(d, cb) a delivered change still invokes cb, and d has no
\* registration left only when no register call is in force.
C9_UnregisterRemovesOne ==
  \A d \in Devices :
    /\ \A cb \in Callbacks : Count(callbacks[d], cb) = subscribed[<<d, cb>>]
    /\ Count(devices[vera_device_id(d)], d) = SubscribedTo(d)
    /\ \A cb \in Callbacks :
         (/\ op = [name |-> "unregister", device |-> d, callback |-> cb]
          /\ raised = None
          /\ subscribed[<<d, cb>>] > 0
          /\ DoneChange(d))
         => CallCount(cb, d) > 0

C9_Witness ==
  \E d \in Devices, cb \in Callbacks :
    /\ op = [name |-> "unregister", device |-> d, callback |-> cb]
    /\ raised = None
    /\ subscribed[<<d, cb>>] = 1
    /\ callbacks[d] = <<cb>>
    /\ devices[vera_device_id(d)] = <<d>>
    /\ DoneChange(d)
    /\ CallCount(cb, d) > 0

\* C11: when two distinct device objects share one device id and each is
\* registered once, with its own callback, one delivered change record for
\* the id calls update on both objects once and invokes each object's
\* callback exactly once, with the object it was registered against.
C11_SharedIdBothDelivered ==
  \A d1, d2 \in Devices, c1, c2 \in Callbacks :
    (/\ d1 # d2
     /\ vera_device_id(d1) = vera_device_id(d2)
     /\ subscribed[<<d1, c1>>] = 1 /\ SubscribedTo(d1) = 1
     /\ subscribed[<<d2, c2>>] = 1 /\ SubscribedTo(d2) = 1
     /\ DoneChange(d1))
    => /\ UpdateCount(d1) = 1 /\ UpdateCount(d2) = 1
       /\ \A cb \in Callbacks :
            /\ CallCount(cb, d1) = (IF cb = c1 THEN 1 ELSE 0)
            /\ CallCount(cb, d2) = (IF cb = c2 THEN 1 ELSE 0)
       /\ CallsOn(d1) = 1 /\ CallsOn(d2) = 1

C11_Witness ==
  /\ subscribed[<<"sensor", "cb1">>] = 1 /\ SubscribedTo("sensor") = 1
  /\ subscribed[<<"armable", "cb2">>] = 1 /\ SubscribedTo("armable") = 1
  /\ DoneChange("sensor")
  /\ calls = << <<"cb1", "sensor">>, <<"cb2", "armable">> >>
  /\ updates = << <<"sensor", RecordOf(DEVICE_DOOR_SENSOR_ID)>>,
                  <<"armable", RecordOf(DEVICE_DOOR_SENSOR_ID)>> >>

\* C12: when a callback raises an Exception during dispatch, the callbacks
\* registered after it for the same device and the callbacks of the other
\* devices changed in the cycle are still invoked, nothing escapes
\* _event_device (no "Error processing event" record), poll_server_once
\* returns True, and the poll thread leaves its loop only when the
\* registry is stopped.
C12_CallbackErrorIsolated ==
  (IsPoll /\ \E k \in 1..Len(calls) : calls[k][1] \in Raising)
  => /\ \A d \in Devices, cb \in Callbacks :
          (DoneChange(d) /\ subscribed[<<d, cb>>] > 0) => CallCount(cb, d) > 0
     /\ \A k \in 1..Len(log) : log[k][1] # "exception"
     /\ poll.returned
     /\ thread = "exited" => exiting

C12_Witness ==
  /\ \E i, j, k \in 1..Len(calls) :
       /\ i < j /\ j < k
       /\ calls[i] = <<"cb2", "lock">>
       /\ calls[j] = <<"cb1", "lock">>
       /\ calls[k] = <<"cb1", "sensor">>
  /\ InSeq(log, <<"callback", "lock">>)
  /\ poll.returned
  /\ thread = "poll"

\* C13: stop() has returned only if the poll thread has left its loop, so
\* no poll cycle, and no callback, runs once stop() has returned.
C13_StopJoinsPollThread ==
  main = "stopped" => thread \in {"exited", "died"}

C13_Witness ==
  /\ main = "stopped"
  /\ thread = "exited"
  /\ IsPoll
  /\ Len(calls) > 0

\* C14 as stated: after a cycle that did not fail the stored cursor is not
\* the initial cursor {dataversion: 1, loadtime: 0}.
C14_CursorNeverInitial ==
  (IsPoll /\ poll.returned) => last_updated # TIMESTAMP_NONE

\* C14 as amended: after a cycle that did not fail the stored cursor is the
\* initial cursor {dataversion: 1, loadtime: 0} only if the long-poll
\* response of that cycle itself carried dataversion 1 and loadtime 0.
C14_CursorInitialOnlyFromHub ==
  (IsPoll /\ poll.returned /\ last_updated = TIMESTAMP_NONE)
  => /\ poll.response.body.v.dataversion = 1
     /\ poll.response.body.v.loadtime = 0

C14_Witness ==
  /\ IsPoll
  /\ poll.returned
  /\ poll.before # TIMESTAMP_NONE
  /\ poll.response.body.v.dataversion = 1
  /\ poll.response.body.v.loadtime = 0
  /\ last_updated = TIMESTAMP_NONE

\* C15: after a poll_server_once call in which the long-poll or the alert
\* fetch ended in a PyveraError or a RequestException the stored cursor is
\* {dataversion: 1, loadtime: 0} and the call returned False; and every
\* long-poll request carries the cursor that was stored when it was made.
C15_FailureResetsCursor ==
  IsPoll =>
    /\ PollFailed => (last_updated = TIMESTAMP_NONE /\ ~poll.returned)
    /\ poll.lp.request = poll.before

C15_Witness ==
  /\ LongPollOk
  /\ AlertFailed
  /\ poll.before # TIMESTAMP_NONE
  /\ poll.lp.timestamp # TIMESTAMP_NONE
  /\ last_updated = TIMESTAMP_NONE
  /\ ~poll.returned

\* C16: a poll cycle whose long-poll or alert fetch fails invokes no
\* callback, calls no update and leaves the cached fields and the alerts
\* of every device as they were, also when the long-poll had returned
\* device records before the alert fetch failed.
C16_FailedCycleTouchesNothing ==
  [][(PollStep /\ PollFailed')
     => /\ calls' = <<>>
        /\ updates' = <<>>
        /\ cycle' = NoCycle
        /\ dev_info' = dev_info
        /\ alerts' = alerts]_vars

C16_Witness ==
  /\ LongPollOk
  /\ poll.lp.device_data = BothDone
  /\ AlertFailed
  /\ calls = <<>>
  /\ updates = <<>>
  /\ dev_info[DEVICE_LOCK_ID].locked = JStr(<<"1">>)
  /\ alerts["lock"] = <<VeraAlert(Alert(DEVICE_LOCK_ID), "lock")>>

\* C17 as stated: whenever the long-poll of a cycle succeeds the stored
\* cursor after the cycle is the cursor that long-poll returned.
C17_CursorIsLongPollCursor ==
  LongPollOk => last_updated = poll.lp.timestamp

\* C17 as amended: whenever the long-poll of a cycle succeeds and the alert
\* fetch, if one is issued, does not fail, the stored cursor after the
\* cycle is the cursor that long-poll returned, whether or not its
\* dataversion differs from the one stored before; and a long-poll request
\* carries the stored cursor.
C17_CursorThreaded ==
  IsPoll =>
    /\ (LongPollOk /\ ~AlertFailed) => last_updated = poll.lp.timestamp
    /\ poll.lp.request = poll.before

C17_Witness ==
  /\ LongPollOk
  /\ ~poll.al.issued
  /\ SameVersion
  /\ poll.lp.timestamp # poll.before
  /\ last_updated = poll.lp.timestamp
  /\ poll.lp.request = poll.before

\* C18: the alert fetch is issued exactly when the long-poll succeeded and
\* the dataversion it returned differs from the stored one or
\* always_update() is true; it is given the cursor stored before the
\* long-poll, not the one the long-poll returned.
C18_AlertFetchGate ==
  IsPoll =>
    /\ poll.al.issued <=> (LongPollOk /\ (~SameVersion \/ always))
    /\ poll.al.issued =>
         poll.al.request = [LoadTime |-> poll.before.loadtime,
                            DataVersion |-> poll.before.dataversion]

C18_Witness ==
  /\ IsPoll
  /\ poll.al.issued
  /\ ~always
  /\ poll.before # TIMESTAMP_NONE
  /\ poll.lp.timestamp.loadtime # poll.before.loadtime
  /\ poll.al.request = [LoadTime |-> poll.before.loadtime,
                        DataVersion |-> poll.before.dataversion]

\* C19 as stated: a successful long-poll with the stored dataversion and
\* always_update() false invokes no callback and calls no update; with
\* another dataversion, or always_update() true, the records of the cycle
\* are dispatched.
C19_DispatchGate ==
  LongPollOk =>
    IF SameVersion /\ ~always
    THEN calls = <<>> /\ updates = <<>> /\ cycle = NoCycle
    ELSE /\ IsEvent
         /\ cycle.data = poll.lp.device_data

\* C19 as amended: a successful long-poll with the stored dataversion and
\* always_update() false invokes no callback and mutates no device, even
\* if the response carries device records; with another dataversion, or
\* always_update() true, and an alert fetch that does not fail, the
\* records of the cycle are dispatched: update is called with them.
C19_DispatchGateNoAlertFailure ==
  [][(PollStep /\ LongPollOk')
     => IF SameVersion' /\ ~always
        THEN /\ calls' = <<>> /\ updates' = <<>> /\ cycle' = NoCycle
             /\ dev_info' = dev_info
             /\ alerts' = alerts
        ELSE ~AlertFailed'
             => /\ IsEvent'
                /\ cycle'.data = poll'.lp.device_data
                /\ cycle'.alerts = poll'.al.alert_data
                /\ poll'.lp.device_data = BothDone
                   => /\ InSeq(updates', <<"lock", Record(DEVICE_LOCK_ID, STATE_JOB_DONE)>>)
                      /\ InSeq(calls', <<"cb1", "sensor">>)]_vars

C19_Witness ==
  /\ LongPollOk
  /\ SameVersion
  /\ ~always
  /\ poll.lp.device_data = BothDone
  /\ poll.lp.timestamp # poll.before
  /\ calls = <<>>
  /\ dev_info = InitDevInfo

\* C20: in a dispatched cycle a registered device whose id appears in the
\* change list or in the alert list is processed (the alerts of the id
\* are attached to it); when the id appears only in the alert list its
\* callbacks are invoked as well and its cached fields stay as they were.
C20_AlertOnlyIdProcessed ==
  [][\A d \in Devices :
       (/\ IsEvent'
        /\ SubscribedTo(d) > 0
        /\ (HasRecord(vera_device_id(d)))' \/ (AlertsOf(vera_device_id(d)))' # <<>>)
       => /\ alerts'[d] =
               [k \in 1..Len((AlertsOf(vera_device_id(d)))') |->
                  VeraAlert((AlertsOf(vera_device_id(d)))'[k], d)]
          /\ (~(HasRecord(vera_device_id(d)))')
             => /\ \A cb \in Callbacks :
                     subscribed[<<d, cb>>] > 0 => (CallCount(cb, d))' > 0
                /\ dev_info'[vera_device_id(d)] = dev_info[vera_device_id(d)]
                /\ \A k \in 1..Len(updates') :
                     updates'[k][1] = d => updates'[k][2] = <<>>]_vars

C20_Witness ==
  /\ IsEvent
  /\ ~HasRecord(DEVICE_LOCK_ID)
  /\ HasRecord(DEVICE_DOOR_SENSOR_ID)
  /\ AlertsOf(DEVICE_LOCK_ID) # <<>>
  /\ SubscribedTo("lock") > 0
  /\ alerts["lock"] = <<VeraAlert(Alert(DEVICE_LOCK_ID), "lock")>>
  /\ CallsOn("lock") > 0
  /\ dev_info[DEVICE_LOCK_ID].locked = JStr(<<"1">>)

\* C21: update never inserts a key: in every step the cached mapping of an
\* id keeps its key set, so a key of the record that the mapping lacks is
\* still lacking afterwards, and a cached key that no record of an update
\* call of the step carries keeps its value.
C21_UpdateInsertsNoKey ==
  [][\A id \in DeviceIds :
       /\ DOMAIN dev_info'[id] = DOMAIN dev_info[id]
       /\ \A k \in DOMAIN dev_info[id] :
            (\A j \in 1..Len(updates') :
               vera_device_id(updates'[j][1]) = id => k \notin DOMAIN updates'[j][2])
            => dev_info'[id][k] = dev_info[id][k]]_vars

C21_Witness ==
  \E j \in 1..Len(updates) :
    /\ updates[j][1] = "lock"
    /\ "state" \in DOMAIN updates[j][2]
    /\ "comment" \notin DOMAIN updates[j][2]
    /\ "state" \notin DOMAIN dev_info[DEVICE_LOCK_ID]
    /\ dev_info[DEVICE_LOCK_ID].locked = JStr(<<"1">>)
    /\ dev_info[DEVICE_LOCK_ID].comment = JStr(<<>>)

\* C22: after update is called with a record, the cached value of every
\* key of the record that the cached mapping has equals the record's
\* value, whatever the cached value was.
C22_KnownFieldsMerged ==
  \A j \in 1..Len(updates) :
    LET id == vera_device_id(updates[j][1])
        r == updates[j][2]
    IN \A k \in DOMAIN r \cap DOMAIN dev_info[id] : dev_info[id][k] = r[k]

\* C23: after a registered device object is processed in a dispatched
\* cycle its attached alerts are exactly the alerts of that cycle whose
\* PK_Device is its id, in their order and with nothing else.
C23_AlertsOfLastCycleOnly ==
  \A d \in Devices :
    (/\ IsEvent
     /\ SubscribedTo(d) > 0
     /\ HasRecord(vera_device_id(d)) \/ AlertsOf(vera_device_id(d)) # <<>>)
    => alerts[d] =
         [k \in 1..Len(AlertsOf(vera_device_id(d))) |->
            VeraAlert(AlertsOf(vera_device_id(d))[k], d)]

C23_Witness ==
  /\ IsEvent
  /\ SubscribedTo("lock") > 0
  /\ "lock" \in had_alerts
  /\ HasRecord(DEVICE_LOCK_ID)
  /\ HasCode(RecordOf(DEVICE_LOCK_ID), STATE_JOB_DONE)
  /\ AlertsOf(DEVICE_LOCK_ID) = <<>>
  /\ alerts["lock"] = <<>>

\* C24: when the record of a registered device is deferred or logged as an
\* error (no update call for the device in the cycle), the alerts attached
\* to the device stay as they were.
C24_AlertsKeptUnlessDelivered ==
  [][\A d \in Devices :
       (/\ IsEvent'
        /\ SubscribedTo(d) > 0
        /\ (HasRecord(vera_device_id(d)))'
        /\ (UpdateCount(d))' = 0)
       => alerts'[d] = alerts[d]]_vars

\* C25: an exception of a poll cycle that is neither a RequestException nor
\* a PyveraError (ControllerNotSetException when no controller is set)
\* leaves poll_server_once with the stored cursor as it was, and ends the
\* poll thread: a thread that has ended this way never starts a cycle again.
C25_OtherExceptionEndsLoop ==
  /\ []((IsPoll /\ (poll.lp.exc \notin Caught \cup {None}
                    \/ poll.al.exc \notin Caught \cup {None}))
         => /\ poll.raised \notin Caught \cup {None}
            /\ last_updated = poll.before
            /\ threads[poll.by] = "died")
  /\ [][\A i \in 1..Len(threads) :
          threads[i] = "died" => threads'[i] = "died"]_vars

C25_Witness ==
  /\ IsPoll
  /\ poll.raised = "ControllerNotSetException"
  /\ poll.before # TIMESTAMP_NONE
  /\ last_updated = poll.before
  /\ thread = "died"
  /\ main = "running"

\* C26: after a poll cycle that failed with a RequestException or a
\* PyveraError the poll thread, while the stop event is not set, comes to
\* start another poll cycle, however many cycles failed before.
C26_RetryAfterFailure ==
  (thread = "retry" /\ ~exiting) ~> (thread = "poll" \/ exiting)

C26_Witness ==
  /\ IsPoll
  /\ PollFailed
  /\ poll.retried
  /\ thread = "poll"
  /\ ~exiting

\* C27 as stated: a long-poll the hub answers with a non-success status
\* makes get_changed_devices fail with PyveraError.
C27_BadStatusIsPyveraError ==
  (IsPoll /\ poll.response.t = "response" /\ poll.response.status >= 400)
    => poll.lp.exc = "PyveraError"

\* C28: with start() and stop() in alternation at most one poll thread is
\* in its loop at any moment, and none once stop() has returned, so that
\* no two poll cycles, and no two callbacks, overlap.
C28_OnePollThread ==
  /\ Cardinality(Live) <= 1
  /\ main = "stopped" => Live = {}

C28_Witness ==
  /\ Len(threads) = 2
  /\ threads[1] = "exited"
  /\ threads[2] = "poll"
  /\ IsPoll
  /\ poll.by = 1
  /\ Len(calls) > 0

\* C29: once stop() has set the event the poll thread makes at most the one
\* poll_server_once call it had already decided on, and stop() returns.
C29_StopEndsLoop ==
  /\ [][\A i \in 1..Len(threads) :
          (threads[i] = "poll" /\ threads'[i] # "poll" /\ exiting)
            => ~(IsPoll /\ poll.stopping /\ poll.by = i)]_vars
  /\ (main = "joining") ~> (main = "stopped")

C29_Witness ==
  /\ main = "stopped"
  /\ thread = "exited"
  /\ IsPoll
  /\ poll.stopping
  /\ Len(calls) > 0

\* C30 as stated: the first long-poll of the thread of a later start()
\* carries the initial cursor {dataversion: 1, loadtime: 0}.
C30_StartBeginsFromInitialCursor ==
  (IsPoll /\ poll.first /\ poll.by > 1 /\ poll.raised = None)
    => poll.lp.request = TIMESTAMP_NONE


\* C31 as stated: every callback invocation of a cycle sees its device
\* with the fields of the record that the cached mapping knows already
\* merged and with the alerts of the cycle attached; a cycle whose one
\* record is {id 10, state 4, locked "1"} invokes the callback of the lock
\* exactly once, with locked "1".
C31_CallbackSeesChange ==
  /\ \A k \in 1..Len(seen) :
       LET d == seen[k].device
           id == vera_device_id(d)
       IN /\ HasRecord(id) =>
               \A key \in DOMAIN RecordOf(id) \cap DOMAIN seen[k].info :
                 seen[k].info[key] = RecordOf(id)[key]
          /\ seen[k].alerts =
               [j \in 1..Len(AlertsOf(id)) |-> VeraAlert(AlertsOf(id)[j], d)]
  /\ (IsEvent /\ cycle.data = JList(<<Record(DEVICE_LOCK_ID, STATE_JOB_DONE)>>))
       => /\ CallCount("cb1", "lock") = 1
          /\ \A k \in 1..Len(seen) :
               seen[k].device = "lock" => seen[k].info.locked = JStr(<<"1">>)

\* C32: in a dispatched cycle that carries a finished job for one id and,
\* for another id, an aborted job or a record whose processing raises, the
\* device objects of the first id are still updated from their record and
\* their callbacks invoked.
C32_OtherIdsStillProcessed ==
  \A d \in Devices :
    LET id == vera_device_id(d)
    IN (/\ IsEvent
        /\ Finished(id)
        /\ \E other \in DeviceIds \ {id} : Aborted(other) \/ Raises(other))
       => /\ UpdateCount(d) = 1
          /\ InSeq(updates, <<d, RecordOf(id)>>)
          /\ CallsOn(d) = Len(callbacks[d])
          /\ Len(callbacks[d]) > 0

C32_Witness ==
  /\ IsEvent
  /\ Raises(DEVICE_LOCK_ID)
  /\ InSeq(log, <<"exception", JInt(DEVICE_LOCK_ID)>>)
  /\ Finished(DEVICE_DOOR_SENSOR_ID)
  /\ CallsOn("sensor") = 1
  /\ CallsOn("armable") = 1
  /\ dev_info[DEVICE_DOOR_SENSOR_ID].tripped = RecordOf(DEVICE_DOOR_SENSOR_ID).tripped
  /\ dev_info[DEVICE_DOOR_SENSOR_ID].tripped = JStr(<<"0">>)

\* C39: when a dispatched cycle carries two records for one id, every
\* device object registered under the id is processed once, on the first
\* of the two records: a finished job is merged once and its callbacks are
\* invoked, an aborted job is logged once, and the second record is not
\* looked at.
C39_FirstRecordOfIdOnly ==
  \A d \in Devices :
    LET id == vera_device_id(d)
    IN (IsEvent /\ Cardinality(RecordsOf(id)) = 2)
       => /\ Finished(id) =>
               /\ UpdateCount(d) = 1
               /\ InSeq(updates, <<d, RecordOf(id)>>)
               /\ CallsOn(d) = Len(callbacks[d])
               /\ Count(log, <<"error", d>>) = 0
          /\ Aborted(id) =>
               /\ UpdateCount(d) = 0
               /\ CallsOn(d) = 0
               /\ Count(log, <<"error", d>>) = 1

C39_Witness ==
  /\ IsEvent
  /\ CycleList = <<RecordWith(DEVICE_LOCK_ID, STATE_JOB_DONE, <<"0">>),
                   RecordWith(DEVICE_LOCK_ID, STATE_JOB_DONE, <<"1">>)>>
  /\ updates = <<<<"lock", CycleList[1]>>>>
  /\ calls = <<<<"cb1", "lock">>>>
  /\ dev_info[DEVICE_LOCK_ID].locked = JStr(<<"0">>)
  /\ had_alerts = {}

\* C33 as stated: a dispatch leaves the cached fields and the alerts of a
\* device object as they were, and invokes no callback with it, unless the
\* object is registered under an id of the cycle.
C33_OnlyRegisteredTouched ==
  [][IsEvent' =>
       \A d \in Devices :
         ~Touched(d) =>
           /\ alerts'[d] = alerts[d]
           /\ dev_info'[vera_device_id(d)] = dev_info[vera_device_id(d)]
           /\ (CallsOn(d))' = 0
           /\ (UpdateCount(d))' = 0]_vars

\* C33: a dispatch leaves the alerts of a device object as they were and
\* makes no update call and no callback with it, unless the object is
\* registered under an id of the cycle; the cached mapping of an id is left
\* as it was unless one of the objects built on it is.
C33_OnlyRegisteredTouchedOrShared ==
  [][IsEvent' =>
       \A d \in Devices :
         /\ ~Touched(d) =>
              /\ alerts'[d] = alerts[d]
              /\ (CallsOn(d))' = 0
              /\ (UpdateCount(d))' = 0
         /\ (\A e \in Devices :
               vera_device_id(e) = vera_device_id(d) => ~Touched(e))
            => dev_info'[vera_device_id(d)] = dev_info[vera_device_id(d)]]_vars

C33_Witness ==
  /\ IsEvent
  /\ cycle.data = JList(<<Record(DEVICE_LOCK_ID, STATE_JOB_DONE),
                          Record(DEVICE_DOOR_SENSOR_ID, STATE_JOB_DONE)>>)
  /\ ~never_registered
  /\ SubscribedTo("lock") = 0
  /\ dev_info[DEVICE_LOCK_ID].locked = JStr(<<"0">>)
  /\ SubscribedTo("sensor") > 0
  /\ SubscribedTo("armable") = 0
  /\ dev_info[DEVICE_DOOR_SENSOR_ID].tripped = JStr(<<"1">>)
  /\ CallsOn("sensor") > 0
  /\ CallsOn("armable") = 0
  /\ UpdateCount("armable") = 0

\* C34: a long-poll answered with success status and a body that is empty,
\* not JSON, not a JSON object or without loadtime or dataversion makes
\* get_changed_devices raise PyveraError, with no change list and no
\* cursor; the same holds of get_alerts with LoadTime and DataVersion.
C34_MalformedBodyIsPyveraError ==
  IsPoll =>
    /\ Malformed(poll.response, "loadtime", "dataversion")
         => /\ poll.lp.exc = "PyveraError"
            /\ DOMAIN poll.lp \cap {"device_data", "timestamp"} = {}
            /\ ~poll.returned
    /\ (poll.al.issued /\ Malformed(poll.answer, "LoadTime", "DataVersion"))
         => /\ poll.al.exc = "PyveraError"
            /\ "alert_data" \notin DOMAIN poll.al
            /\ ~poll.returned

C34_Witness ==
  /\ IsPoll
  /\ poll.response.t = "response"
  /\ poll.response.body.t = "json"
  /\ DOMAIN poll.response.body.v = {"dataversion", "devices"}
  /\ poll.lp.exc = "PyveraError"
  /\ poll.before # TIMESTAMP_NONE
  /\ calls = <<>>

\* C35: the record of a registered device is delivered, deferred or logged
\* as an error, exactly one of the three, and which one is fixed by the
\* class of the device, the state and the comment of the record; an aborted
\* job and an unknown job code are logged as errors, a record without state
\* is delivered, and IN_PROGRESS with "SUCCESS!" on a device that is not a
\* lock is deferred.
C35_ClassifiedByRecordAlone ==
  \A d \in Devices :
    LET id == vera_device_id(d)
        r == RecordOf(id)
        class == Classify(d, CodeOf(r), CommentOf(r))
    IN (IsEvent /\ HasRecord(id)) =>
         /\ Delivered(d) <=> class = "DELIVER"
         /\ Deferred(d) <=> class = "DEFER"
         /\ LoggedError(d) <=> class = "LOG_ERROR"
         /\ (HasCode(r, STATE_JOB_ABORTED) \/ HasCode(r, UnknownCode))
              => LoggedError(d)
         /\ "state" \notin DOMAIN r => Delivered(d)
         /\ (/\ ClassName(d) # "VeraLock"
             /\ HasCode(r, STATE_JOB_IN_PROGRESS)
             /\ Contains(CommentOf(r), SUCCESS))
              => Deferred(d)
         /\ \A e \in Devices :
              (ClassName(d) # "VeraLock" /\ vera_device_id(e) = id)
                => /\ Delivered(e) <=> Delivered(d)
                   /\ Deferred(e) <=> Deferred(d)

C35_Witness ==
  /\ IsEvent
  /\ HasRecord(DEVICE_DOOR_SENSOR_ID)
  /\ HasCode(RecordOf(DEVICE_DOOR_SENSOR_ID), STATE_JOB_IN_PROGRESS)
  /\ Contains(CommentOf(RecordOf(DEVICE_DOOR_SENSOR_ID)), SUCCESS)
  /\ deferred = {"sensor", "armable"}
  /\ updates = <<>>
  /\ calls = <<>>
  /\ dev_info[DEVICE_LOCK_ID].locked = JStr(<<"1">>)
  /\ dev_info[DEVICE_DOOR_SENSOR_ID].tripped = JStr(<<"0">>)

\* C36: after any register and unregister calls, failed ones included, the
\* list kept under a device object's id holds the object as many times as
\* the object has callback entries.
C36_DeviceEntriesMatchCallbacks ==
  \A d \in Devices :
    Count(devices[vera_device_id(d)], d) = Len(callbacks[d])

C36_Witness ==
  /\ op.name = "unregister"
  /\ raised = "ValueError"
  /\ op.device = "sensor"
  /\ callbacks["sensor"] # <<>>
  /\ devices[DEVICE_DOOR_SENSOR_ID] = <<"armable", "sensor">>

\* C37 as stated: when a callback of a device has called unregister during
\* a dispatch, every callback that is registered for the device after the
\* dispatch has been invoked in it.
C37_RemainingCallbacksInvoked ==
  \A d \in Devices :
    (IsEvent /\ \E cb \in SelfRemoving : InSeq(calls, <<cb, d>>))
      => \A k \in 1..Len(callbacks[d]) : InSeq(calls, <<callbacks[d][k], d>>)

\* C38 as stated: a poll_server_once call made while the stop event is set
\* dispatches nothing: no update call, no callback.
C38_NoDispatchOnceStopping ==
  (IsPoll /\ poll.stopping) => (~IsEvent /\ calls = <<>> /\ updates = <<>>)

\* C40: while the lock has a target, is_locked() returns the state the
\* last lock() or unlock() asked for, whatever the cached value; the target
\* goes away only in an is_locked() call that finds the cached value equal
\* to it or LOCK_TARGET_TIMEOUT_SEC seconds passed since the command, and
\* without a target is_locked() returns the cached value.
C40_TargetAnswersWhilePending ==
  /\ [](op.name = "is_locked" =>
          reply = IF lock_target # NoTarget THEN lock_target.state = <<"1">>
                  ELSE dev_info[DEVICE_LOCK_ID].locked = JStr(<<"1">>))
  /\ [][(op'.name \in {"lock", "unlock"} /\ raised' = None /\ now' = now) =>
          /\ lock_target' # NoTarget
          /\ lock_target'.state = (IF op'.name = "lock" THEN <<"1">> ELSE <<"0">>)
          /\ lock_target'.time = now]_vars
  /\ [][(lock_target # NoTarget /\ lock_target' # lock_target) =>
          \/ op'.name \in {"lock", "unlock"} /\ lock_target' # NoTarget
          \/ /\ op'.name = "is_locked"
             /\ lock_target' = NoTarget
             /\ \/ JStr(lock_target.state) = dev_info[DEVICE_LOCK_ID].locked
                \/ now - lock_target.time >= LOCK_TARGET_TIMEOUT_SEC]_vars

C40_Witness ==
  /\ op.name = "is_locked"
  /\ lock_target # NoTarget
  /\ lock_target.state = <<"1">>
  /\ dev_info[DEVICE_LOCK_ID].locked = JStr(<<"0">>)
  /\ now - lock_target.time = LOCK_TARGET_TIMEOUT_SEC - 1
  /\ reply = TRUE

\* C10: after the pair (d, cb) has been registered k >= 1 times, one
\* delivered change for d invokes cb k times.
C10_OneDeliveryPerRegistration ==
  \A d \in Devices, cb \in Callbacks :
    (subscribed[<<d, cb>>] >= 1 /\ DoneChange(d))
    => CallCount(cb, d) = subscribed[<<d, cb>>]

====
